---- MODULE Spec2Model ----
(***************************************************************************)
(* pyFIS (klimaatbestendige_netwerken/pyFIS.py): a paginated REST client   *)
(* that turns listings of a geodata service into tables, keeps one table   *)
(* per geotype as an attribute of the client object, joins two tables and  *)
(* exports them.                                                           *)
(*                                                                         *)
(* One step of the model is one stretch of client code between two network *)
(* requests: a top-level call runs up to its first request (or to its      *)
(* return when it needs none), and every request step sends one page       *)
(* request, receives the server's answer and runs the client on to its     *)
(* next request or to the end of the call.                                 *)
(***************************************************************************)
EXTENDS Integers, Sequences, FiniteSets, TLC

(***************************************************************************)
(* Bounds of the model.                                                    *)
(***************************************************************************)
\* Largest number of records the server lists for one geotype.
MaxTotal == 3
\* Largest small page size (pyFIS.count) a behaviour starts with.
MaxCount == 2
\* Largest number of page requests of one fetch the model follows.
MaxRequests == 3
\* Number of top-level calls of one behaviour.
MaxCalls == 2
\* Size of the listing of the two-page scenario (650 records, page size 500).
ScenarioTotal == 650

\* pyFIS.count, the default page size.
DefaultCount == 500

(***************************************************************************)
(* Names.                                                                  *)
(***************************************************************************)
\* The geotypes the server knows (the answer to the 'geotype' request).
GeoTypes == {"bridge", "opening"}
GeoTypeList == <<"bridge", "opening">>

\* Attributes every client object has after construction: the class
\* attribute, the instance attributes of __init__, and the methods.
SessionAttrs == {"baseurl", "geogeneration", "publication_date",
                 "service_coordinate_system", "export_coordinate_system"}
MethodAttrs == {"list_geotypes", "list_relations", "list_objects",
                "list_all_objects", "get_object", "get_object_subobjects",
                "_parse_request", "find_object_by_value",
                "find_object_by_polygon", "find_closest_object",
                "merge_geotypes", "export"}
BuiltinAttrs == {"count"} \cup SessionAttrs \cup MethodAttrs

\* Names a caller passes as geotype: the server's geotypes and one name that
\* is also an attribute of the client.
GeoNames == GeoTypes \cup {"count"}
AttrNames == GeoTypes \cup BuiltinAttrs

\* The generation the discovery request of __init__ found.
Generation == 7

(***************************************************************************)
(* Python values.                                                          *)
(***************************************************************************)
Absent == [kind |-> "absent"]
PyNone == [kind |-> "none"]
PyInt(n) == [kind |-> "int", int |-> n]
PyStr(s) == [kind |-> "str", str |-> s]
PyMethod == [kind |-> "method"]
\* A (Geo)DataFrame: its rows in order, and the crs attribute set on it.
DataFrame(rows, crs) == [kind |-> "df", rows |-> rows, crs |-> crs]
\* A parsed JSON body that is no table: a dict or a list.
JsonDict(d) == [kind |-> "dict", dict |-> d]
JsonList(l) == [kind |-> "list", list |-> l]

\* key in body, for a dict (its keys) and for a list (its elements).
Contains(body, key) ==
    IF body.kind = "dict" THEN key \in DOMAIN body.dict
    ELSE \E i \in DOMAIN body.list : body.list[i] = key

\* The columns of a DataFrame built from a list of dicts.
Columns(df) == UNION {DOMAIN df.rows[i] : i \in DOMAIN df.rows}

(***************************************************************************)
(* The server's data: a fixed fixture of records per geotype.  A geometry  *)
(* travels as well-known text; record 3 of every geotype carries text that *)
(* is no well-known text.                                                  *)
(***************************************************************************)
PointWkt(i) == "POINT (" \o ToString(i) \o " " \o ToString(i) \o ")"
BadWkt == "POINT (3"
WktText(s) == [wkt |-> s]

Rec(g, i) ==
    IF g = "opening"
    THEN [GeoType |-> "opening", Id |-> i,
          ParentGeoType |-> IF i = 3 THEN "lock" ELSE "bridge",
          ParentId |-> (i + 1) \div 2,
          Name |-> IF i = 2 THEN "Noord" ELSE "Zuid",
          Geometry |-> WktText(PointWkt(i))]
    ELSE [GeoType |-> g, Id |-> i,
          ParentId |-> IF i = 1 THEN 2 ELSE 1,
          Name |-> IF i = 2 THEN "Noord" ELSE "Zuid",
          Geometry |-> WktText(IF i = 3 THEN BadWkt ELSE PointWkt(i))]

\* The listing of n records of geotype g.
Listing(g, n) == [i \in 1..n |-> Rec(g, i)]

(***************************************************************************)
(* State.                                                                  *)
(***************************************************************************)
VARIABLES
    attrs,   \* the client object's attributes by name (Absent: no attribute)
    total,   \* the server: number of records it lists per geotype
    files,   \* the file system: the content of every file (Absent: no file)
    call,    \* the top-level call in progress and its local variables
    fetch,   \* the _parse_request in progress: url, offset, result
    done,    \* the last finished call: its arguments and its outcome
    reqs,    \* the requests of the current (or last) call and their answers
    ncalls   \* number of top-level calls made

vars == <<attrs, total, files, call, fetch, done, reqs, ncalls>>

Idle == [op |-> "idle"]
Running == [op |-> "running"]
NoFetch == [active |-> FALSE]

\* A hasattr that sees the stored tables only.
hasattrTablesOnly(a, name) == name \in GeoTypes /\ a[name] # Absent

\* A hasattr that does not see the tables list_objects stored.
hasattrNoTables(a, name) == a[name] # Absent /\ name \notin GeoTypes

\* A hasattr that does not see the methods of the class.
hasattrNoMethods(a, name) == a[name] # Absent /\ a[name] # PyMethod

\* hasattr(self, name) and getattr(self, name).
hasattr(a, name) == a[name] # Absent
getattr(a, name) == a[name]
setattr(a, name, value) == [a EXCEPT ![name] = value]

\* self.count, the page size.
PageSize(a) == a["count"].int

(***************************************************************************)
(* The server.  A request names an endpoint (the url's path components), an *)
(* offset and a count.  The server may answer it honestly or in any of the  *)
(* other shapes below.                                                      *)
(***************************************************************************)
Min(a, b) == IF a < b THEN a ELSE b

\* Records of geotype g2 that declare (g, id) as their parent.
SubObjects(g, id, g2, n) ==
    SelectSeq(Listing(g2, n),
              LAMBDA r : /\ "ParentGeoType" \in DOMAIN r
                         /\ r.ParentGeoType = g
                         /\ ToString(r.ParentId) = id)

\* The listing an endpoint serves.
EndpointListing(components, tot) ==
    IF Len(components) = 2 /\ components[2] \in GeoTypes
    THEN Listing(components[2], tot[components[2]])
    ELSE IF Len(components) = 4 /\ components[4] \in GeoTypes
    THEN SubObjects(components[2], components[3], components[4], tot[components[4]])
    ELSE <<>>

\* Records o .. min(o+c, Len(L))-1 of listing L, counted from 0.
Slice(L, o, c) == SubSeq(L, o + 1, Min(o + c, Len(L)))

PageBody(rows, off, cnt, tot) ==
    JsonDict([Result |-> rows, Offset |-> off, Count |-> cnt, TotalCount |-> tot])

Answer(kind, body) == [ok |-> TRUE, status |-> 200, kind |-> kind, body |-> body]
Failure(status) == [ok |-> FALSE, status |-> status, kind |-> "fail", body |-> PyNone]

\* The ways a server pages through a listing.  An honest server returns the
\* requested slice; Count is the number of records returned, or the number
\* asked for.  A short server returns at most one record per page, whatever
\* was asked.  An endless server reports more records to come on every page.
\* A server may add a Geometry key to a page.
PagingModes == {"honest", "short", "endless", "both"}

PageAnswers(mode, L, o, c) ==
    IF mode = "honest"
    THEN {Answer("honest", PageBody(Slice(L, o, c), o, cnt, Len(L))) :
             cnt \in {Len(Slice(L, o, c)), c}}
    ELSE IF mode = "short"
    THEN IF c > 1
         THEN {Answer("short", PageBody(Slice(L, o, 1), o, Len(Slice(L, o, 1)), Len(L)))}
         ELSE {}
    ELSE IF mode = "endless"
    THEN {Answer("endless", PageBody(Slice(L, o, c), o, c, o + c + 1))}
    ELSE {Answer("both", JsonDict([Result |-> Slice(L, o, c), Offset |-> o,
                                   Count |-> c, TotalCount |-> Len(L),
                                   Geometry |-> WktText(PointWkt(0))]))}

\* A single object: a body with a Geometry key and no Result key.
ObjectAnswers(components) ==
    {Answer("object", JsonDict(Rec(components[2], i))) :
        i \in {j \in 1..MaxTotal : IF Len(components) >= 3
                                   THEN ToString(j) = components[3]
                                   ELSE j = 1}}

\* A body with neither key.
OpaqueAnswers == {Answer("opaque", JsonDict([Relations |-> "none"]))}

\* The catalog of geotypes: a list of names.
CatalogAnswers == {Answer("honest", JsonList(GeoTypeList))}

\* The relations of a geotype: a list of names.
RelationAnswers == {Answer("honest", JsonList(<<"opening">>))}

\* The answers of a well-behaved server: the catalog, the object, or the
\* requested page of the listing; or a failure.
PlainResponses(components, o, c, tot) ==
    LET L == EndpointListing(components, tot) IN
    IF components = <<"geotype">>
    THEN CatalogAnswers \cup {Failure(503)}
    ELSE IF components[Len(components)] = "relations"
    THEN RelationAnswers \cup {Failure(503)}
    ELSE IF Len(components) = 3
    THEN ObjectAnswers(components) \cup {Failure(503)}
    ELSE {Answer("honest", PageBody(Slice(L, o, c), o, Len(Slice(L, o, c)), Len(L))),
          Failure(503)}

\* The answers the server may give to a request: the catalog of geotypes is
\* a list; an object endpoint answers with an object or another body; a
\* listing endpoint answers with a page, in one way of paging during one
\* fetch, or with another body.  Every request may fail.
Responses(components, o, c, tot, paging) ==
    LET L == EndpointListing(components, tot) IN
    IF components = <<"geotype">>
    THEN CatalogAnswers \cup {Failure(503)}
    ELSE IF components[Len(components)] = "relations"
    THEN RelationAnswers \cup {Failure(503)}
    ELSE IF Len(components) = 3
    THEN ObjectAnswers(components) \cup OpaqueAnswers \cup {Failure(503)}
    ELSE UNION {PageAnswers(mode, L, o, c) :
                   mode \in IF paging = "any" THEN PagingModes ELSE {paging}}
         \cup ObjectAnswers(components) \cup OpaqueAnswers \cup {Failure(503)}

(***************************************************************************)
(* _parse_request: the request loop and the processing of its result.      *)
(***************************************************************************)
\* A fresh request loop for an endpoint: result = [], offset = 0.  n counts
\* the requests made; paging is the way the server pages in this fetch.
StartFetch(components) ==
    [active |-> TRUE, components |-> components, offset |-> 0,
     result |-> <<>>, n |-> 0, paging |-> "any"]

\* An assertion whose message names neither the url nor the response.
RequestErrorBare(components, resp) ==
    [kind |-> "error", type |-> "AssertionError", url |-> <<>>, response |-> 0]

\* assert response: the AssertionError names the url and the response.
RequestError(components, resp) ==
    [kind |-> "error", type |-> "AssertionError",
     url |-> components, response |-> resp.status]
OtherError(type) == [kind |-> "error", type |-> type]

\* A continuation rule that leaves the Count of the page out.
MorePagesFromOffset(page) == page.Offset < page.TotalCount

\* Continuation rules that are off by one.
MorePagesOffByOne(page) == page.Offset + page.Count < page.TotalCount - 1
MorePagesInclusive(page) == page.Offset + page.Count <= page.TotalCount

\* The continuation rule of a listing page.
MorePages(page) == page.Offset + page.Count < page.TotalCount

\* wkt.loads: the geometry a well-known text denotes, if it is one.
IsWkt(s) == \E i \in 0..MaxTotal + 1 : s = PointWkt(i)
WktLoads(s) ==
    LET i == CHOOSE j \in 0..MaxTotal + 1 : s = PointWkt(j)
    IN  [type |-> "Point", x |-> i, y |-> i]

\* rename(axis=1, mapper={'Geometry': 'geometry'}) on one row.
RenameGeometry(row) ==
    [k \in (DOMAIN row \ {"Geometry"}) \cup {"geometry"} |->
        IF k = "geometry" THEN row["Geometry"] ELSE row[k]]

\* A point of the service coordinate system (degrees) in the export
\* coordinate system (metres), to the first order around (5, 52).
Reproject(p) ==
    [type |-> p.type, x |-> 155000 + (p.x - 5) * 68000,
                      y |-> 463000 + (p.y - 52) * 111000]

\* df.to_crs(crs): a new table with every geometry in the other coordinate
\* system; df itself is left as it is.
ToCrs(df, crs) ==
    DataFrame([i \in DOMAIN df.rows |->
                  [df.rows[i] EXCEPT !.geometry = Reproject(df.rows[i].geometry)]],
              crs)

\* A processing that lets the failure of wkt.loads leave _parse_request.
ProcessResultStrict(result, a) ==
    IF result.kind = "df" /\ "Geometry" \in Columns(result)
    THEN IF \A i \in DOMAIN result.rows : IsWkt(result.rows[i].Geometry.wkt)
         THEN DataFrame([i \in DOMAIN result.rows |->
                            [RenameGeometry(result.rows[i]) EXCEPT
                                !.geometry = WktLoads(result.rows[i].Geometry.wkt)]],
                        IF a["export_coordinate_system"] # PyNone
                        THEN a["service_coordinate_system"] ELSE result.crs)
         ELSE OtherError("WKTReadingError")
    ELSE result

\* The processing of the loop's result: the Geometry column is renamed and
\* parsed; a text that does not parse leaves every value as it was.  With an
\* export coordinate system the table's crs is set; to_crs returns a new
\* table, which is dropped.
ProcessResult(result, a) ==
    IF result.kind = "df"
    THEN IF "Geometry" \in Columns(result)
         THEN LET renamed == [i \in DOMAIN result.rows |->
                                 RenameGeometry(result.rows[i])]
                  parses == \A i \in DOMAIN renamed : IsWkt(renamed[i].geometry.wkt)
                  parsed == [i \in DOMAIN renamed |->
                                [renamed[i] EXCEPT
                                    !.geometry = WktLoads(renamed[i].geometry.wkt)]]
                  withcrs == DataFrame(parsed, a["service_coordinate_system"])
                  dropped == ToCrs(withcrs, a["export_coordinate_system"])
              IN  IF ~parses THEN DataFrame(renamed, result.crs)
                  ELSE IF a["export_coordinate_system"] # PyNone
                  THEN withcrs
                  ELSE DataFrame(parsed, result.crs)
         ELSE result
    ELSE IF Contains(result, "Geometry")
    THEN OtherError("AttributeError")
    ELSE result

\* A loop that moves the offset by the Count the server reported.
LoopTurnOffsetByReported(f, resp, a) ==
    IF ~resp.ok
    THEN [tag |-> "raise", error |-> RequestError(f.components, resp)]
    ELSE IF Contains(resp.body, "Result")
    THEN LET page == resp.body.dict
             result == f.result \o page.Result
         IN  IF MorePages(page)
             THEN [tag |-> "next",
                   fetch |-> [f EXCEPT !.result = result,
                                       !.offset = page.Offset + page.Count,
                                       !.n = f.n + 1]]
             ELSE [tag |-> "return", value |-> DataFrame(result, PyNone)]
    ELSE IF Contains(resp.body, "Geometry")
    THEN [tag |-> "return", value |-> DataFrame(<<resp.body.dict>>, PyNone)]
    ELSE [tag |-> "return", value |-> resp.body]

\* A loop that looks for the Geometry key before the Result key.
LoopTurnGeometryFirst(f, resp, a) ==
    IF ~resp.ok
    THEN [tag |-> "raise", error |-> RequestError(f.components, resp)]
    ELSE IF Contains(resp.body, "Geometry")
    THEN [tag |-> "return", value |-> DataFrame(<<resp.body.dict>>, PyNone)]
    ELSE IF Contains(resp.body, "Result")
    THEN LET page == resp.body.dict
             result == f.result \o page.Result
         IN  IF MorePages(page)
             THEN [tag |-> "next",
                   fetch |-> [f EXCEPT !.result = result,
                                       !.offset = f.offset + PageSize(a),
                                       !.n = f.n + 1]]
             ELSE [tag |-> "return", value |-> DataFrame(result, PyNone)]
    ELSE [tag |-> "return", value |-> resp.body]

\* One turn of the request loop on the answer to its request: the loop
\* raises, goes on to the next page, or ends with the value it returns.
LoopTurn(f, resp, a) ==
    IF ~resp.ok
    THEN [tag |-> "raise", error |-> RequestError(f.components, resp)]
    ELSE IF Contains(resp.body, "Result")
    THEN LET page == resp.body.dict
             result == f.result \o page.Result
         IN  IF MorePages(page)
             THEN [tag |-> "next",
                   fetch |-> [f EXCEPT !.result = result,
                                       !.offset = f.offset + PageSize(a),
                                       !.n = f.n + 1]]
             ELSE [tag |-> "return", value |-> DataFrame(result, PyNone)]
    ELSE IF Contains(resp.body, "Geometry")
    THEN [tag |-> "return", value |-> DataFrame(<<resp.body.dict>>, PyNone)]
    ELSE [tag |-> "return", value |-> resp.body]

\* The whole of _parse_request after the answer to a request.
ParseRequest(f, resp, a) ==
    LET turn == LoopTurn(f, resp, a) IN
    IF turn.tag = "return"
    THEN LET v == ProcessResult(turn.value, a)
         IN  IF v.kind = "error" THEN [tag |-> "raise", error |-> v]
             ELSE [tag |-> "return", value |-> v]
    ELSE turn

(***************************************************************************)
(* merge_geotypes: the join of two tables.                                 *)
(***************************************************************************)
\* The name pandas gives a right column whose name the left table has too.
Suffixed(c, right_geotype) == c \o "_" \o right_geotype

\* Whether a left and a right row agree on the join keys, pairwise.
KeysMatch(l, r, left_on, right_on) ==
    \A k \in DOMAIN left_on : l[left_on[k]] = r[right_on[k]]

\* One row of the join: the left row's columns under their own names, the
\* right row's columns suffixed where the left table has the name too.
JoinedRow(l, r, right_geotype) ==
    LET both == DOMAIN l \cap DOMAIN r
        names == DOMAIN l \cup {Suffixed(c, right_geotype) : c \in both}
                          \cup (DOMAIN r \ both)
    IN  [k \in names |->
            IF k \in DOMAIN l THEN l[k]
            ELSE IF k \in DOMAIN r THEN r[k]
            ELSE r[CHOOSE c \in both : Suffixed(c, right_geotype) = k]]

\* DataFrame.merge(how='inner'): the matching pairs, in the order of the
\* left rows and then of the right rows.
InnerJoin(df_l, df_r, left_on, right_on, right_geotype) ==
    LET nl == Len(df_l.rows)
        nr == Len(df_r.rows)
        pairs == [k \in 1..(nl * nr) |->
                    <<df_l.rows[((k - 1) \div nr) + 1], df_r.rows[((k - 1) % nr) + 1]>>]
        matching == SelectSeq(pairs,
                        LAMBDA p : KeysMatch(p[1], p[2], left_on, right_on))
    IN  DataFrame([k \in DOMAIN matching |->
                      JoinedRow(matching[k][1], matching[k][2], right_geotype)],
                  df_l.crs)

\* Join keys that leave the parent's geotype out.
JoinKeysIdOnly(df_r, left_on, right_on) ==
    IF left_on = PyNone \/ right_on = PyNone
    THEN [left |-> <<"Id">>, right |-> <<"ParentId">>]
    ELSE [left |-> left_on.list, right |-> right_on.list]

\* bool(v) of a join key argument: None, an empty list and an empty string
\* are false.
Truthy(v) ==
    IF v.kind = "none" THEN FALSE
    ELSE IF v.kind = "list" THEN v.list # <<>>
    ELSE IF v.kind = "str" THEN v.str # ""
    ELSE TRUE

\* The column names a join key argument stands for: a list of labels, or one
\* label.
KeyList(v) == IF v.kind = "list" THEN v.list ELSE <<v.str>>

\* The join keys merge_geotypes assumes when it does not take the caller's.
AssumedKeys(df_r) ==
    IF "ParentGeoType" \in Columns(df_r)
    THEN [left |-> <<"GeoType", "Id">>, right |-> <<"ParentGeoType", "ParentId">>]
    ELSE [left |-> <<"Id">>, right |-> <<"ParentId">>]

\* Join keys that keep a key the caller gave alone, next to Id or ParentId.
JoinKeysKeepingOne(df_r, left_on, right_on) ==
    IF (~Truthy(left_on)) /\ (~Truthy(right_on))
    THEN AssumedKeys(df_r)
    ELSE [left |-> IF Truthy(left_on) THEN KeyList(left_on) ELSE <<"Id">>,
          right |-> IF Truthy(right_on) THEN KeyList(right_on) ELSE <<"ParentId">>]

\* The join keys merge_geotypes uses.
JoinKeys(df_r, left_on, right_on) ==
    IF (~Truthy(left_on)) \/ (~Truthy(right_on))
    THEN AssumedKeys(df_r)
    ELSE [left |-> KeyList(left_on), right |-> KeyList(right_on)]

\* merge_geotypes once both tables are loaded.
MergeLoaded(df_l, df_r, args) ==
    IF df_r.kind # "df" \/ df_l.kind # "df"
    THEN OtherError("AttributeError")
    ELSE LET keys == JoinKeys(df_r, args.left_on, args.right_on) IN
         IF \/ \E k \in DOMAIN keys.left : keys.left[k] \notin Columns(df_l)
            \/ \E k \in DOMAIN keys.right : keys.right[k] \notin Columns(df_r)
         THEN OtherError("KeyError")
         ELSE InnerJoin(df_l, df_r, keys.left, keys.right, args.right_geotype)

(***************************************************************************)
(* The find methods: a selection of the rows of a table.                   *)
(***************************************************************************)
\* list_objects[list_objects[fieldname] == fieldvalue]: a new table of the
\* rows whose fieldname equals fieldvalue, in their order.  A table without
\* the column (an empty table has no column) and a dict without the key
\* raise KeyError; a value that cannot be subscripted raises TypeError.
FindByValue(df, fieldvalue, fieldname) ==
    IF df.kind = "df"
    THEN IF fieldname \in Columns(df)
         THEN DataFrame(SelectSeq(df.rows,
                            LAMBDA r : fieldname \in DOMAIN r /\ r[fieldname] = fieldvalue),
                        df.crs)
         ELSE OtherError("KeyError")
    ELSE IF df.kind = "dict" THEN OtherError("KeyError")
    ELSE OtherError("TypeError")

\* Whether every row of a table has a parsed geometry.
HasGeometries(df) ==
    /\ df.kind = "df"
    /\ df.rows # <<>>
    /\ \A i \in DOMAIN df.rows :
          /\ "geometry" \in DOMAIN df.rows[i]
          /\ "type" \in DOMAIN df.rows[i].geometry

\* df[df.geometry.within(polygon)] for the square polygon with the corners
\* (lo, lo) and (hi, hi): the rows whose point lies strictly inside.
FindByPolygon(df, polygon) ==
    IF HasGeometries(df)
    THEN DataFrame(SelectSeq(df.rows,
                       LAMBDA r : /\ polygon.lo < r.geometry.x /\ r.geometry.x < polygon.hi
                                  /\ polygon.lo < r.geometry.y /\ r.geometry.y < polygon.hi),
                   df.crs)
    ELSE OtherError("AttributeError")

\* The square of the distance between two points.
Dist2(p, q) == (p.x - q.x) * (p.x - q.x) + (p.y - q.y) * (p.y - q.y)

\* nearest_points(df.unary_union, point) and df[df['geometry'] == p]: the
\* rows whose point is the nearest one to the given point.
FindClosest(df, point) ==
    IF HasGeometries(df)
    THEN LET p == CHOOSE g \in {df.rows[i].geometry : i \in DOMAIN df.rows} :
                      \A i \in DOMAIN df.rows : Dist2(g, point) <= Dist2(df.rows[i].geometry, point)
         IN  DataFrame(SelectSeq(df.rows, LAMBDA r : r.geometry = p), df.crs)
    ELSE OtherError("AttributeError")

(***************************************************************************)
(* Files.                                                                  *)
(***************************************************************************)
Path(stem, suffix) == [stem |-> stem, suffix |-> suffix]
\* The destinations a caller exports to.
Destinations == {Path("out", "xlsx"), Path("out", "csv"), Path("out", "txt")}
\* filepath.parent / f'{filepath.stem}_{geotype}.csv'
CsvPath(filepath, geotype) == Path(filepath.stem \o "_" \o geotype, "csv")
FileNames == Destinations \cup {CsvPath(d, g) : d \in Destinations, g \in GeoNames}

\* A file that was there before the client ran.
OldFile == [kind |-> "file", written |-> "before"]
Workbook(sheets) == [kind |-> "file", written |-> "xlsx", sheets |-> sheets]
CsvFile(df) == [kind |-> "file", written |-> "csv", rows |-> df.rows]

\* geotype[:31]: every geotype name of the model is shorter than 31 characters.
SheetName(geotype) == geotype

(***************************************************************************)
(* The client's methods.  A machine m holds what a call reads and writes:   *)
(* attrs, files, call, fetch and done.  Each operator runs the client from  *)
(* one point of the code to the next request, or to the end of the call.    *)
(***************************************************************************)
\* A call's arguments and local variables; before is what the client's
\* attributes and the files were when the call started.
NewCall(op, args, before) ==
    [op |-> op, args |-> args, before |-> before, wait |-> "none", geotype |-> "",
     df_l |-> Absent, filetype |-> "", geotypes |-> <<>>, i |-> 1, sheets |-> <<>>]

\* The call ends: it returns a value or raises an error.
Finish(m, result) ==
    [m EXCEPT !.call = Idle, !.fetch = NoFetch,
              !.done = [op |-> m.call.op, args |-> m.call.args,
                        before |-> m.call.before, result |-> result]]

\* The call goes into _parse_request(components).
Request(m, components, wait, geotype) ==
    [m EXCEPT !.fetch = StartFetch(components),
              !.call.wait = wait, !.call.geotype = geotype]

RECURSIVE list_objects(_, _), AfterListObjects(_, _), ExportLoop(_), SweepLoop(_)

\* list_objects(geotype), called from m.call: the attribute if there is one,
\* a fetch of {generation}/{geotype} otherwise.
list_objects(m, geotype) ==
    IF hasattr(m.attrs, geotype)
    THEN AfterListObjects(m, getattr(m.attrs, geotype))
    ELSE Request(m, <<m.attrs["geogeneration"].str, geotype>>, "list_objects", geotype)

\* export's loop over the geotypes, from geotype number m.call.i on.
ExportLoop(m) ==
    LET c == m.call IN
    IF c.filetype \in {"xlsx", "xls"}
    THEN IF c.i <= Len(c.geotypes)
         THEN list_objects(m, c.geotypes[c.i])
         ELSE Finish([m EXCEPT !.files[c.args.filepath] = Workbook(c.sheets)], PyNone)
    ELSE IF c.filetype = "csv"
    THEN IF c.i <= Len(c.geotypes)
         THEN list_objects(m, c.geotypes[c.i])
         ELSE Finish(m, PyNone)
    ELSE Finish(m, PyNone)

\* A sweep that ends after the first geotype.
SweepLoopFirstOnly(m) ==
    LET c == m.call IN
    IF c.i <= Len(c.geotypes) /\ c.i <= 1
    THEN list_objects(m, c.geotypes[c.i])
    ELSE Finish(m, PyNone)

\* list_all_objects' loop over the geotypes, from geotype number m.call.i on;
\* the method returns None.
SweepLoop(m) ==
    LET c == m.call IN
    IF c.i <= Len(c.geotypes)
    THEN list_objects(m, c.geotypes[c.i])
    ELSE Finish(m, PyNone)

\* The caller of list_objects goes on with the table df.
AfterListObjects(m, df) ==
    LET c == m.call IN
    IF c.op = "list_objects" THEN Finish(m, df)
    ELSE IF c.op = "list_all_objects"
    THEN SweepLoop([m EXCEPT !.call.i = c.i + 1])
    ELSE IF c.op = "find_object_by_value"
    THEN Finish(m, FindByValue(df, c.args.fieldvalue, c.args.fieldname))
    ELSE IF c.op = "find_object_by_polygon"
    THEN Finish(m, FindByPolygon(df, c.args.polygon))
    ELSE IF c.op = "find_closest_object"
    THEN Finish(m, FindClosest(df, c.args.point))
    ELSE IF c.op = "merge_geotypes"
    THEN IF c.df_l = Absent
         THEN list_objects([m EXCEPT !.call.df_l = df], c.args.right_geotype)
         ELSE Finish(m, MergeLoaded(c.df_l, df, c.args))
    ELSE \* export
         IF df.kind # "df" THEN Finish(m, OtherError("AttributeError"))
         ELSE IF c.filetype = "csv"
         THEN ExportLoop([m EXCEPT
                 !.files[CsvPath(c.args.filepath, c.geotypes[c.i])] = CsvFile(df),
                 !.call.i = c.i + 1])
         ELSE ExportLoop([m EXCEPT
                 !.call.sheets = Append(c.sheets,
                     [sheet_name |-> SheetName(c.geotypes[c.i]), rows |-> df.rows]),
                 !.call.i = c.i + 1])

\* export, from the top to its first request.
export(m) ==
    LET a == m.call.args
        filetype == IF a.filetype = PyNone THEN a.filepath.suffix ELSE a.filetype.str
        unlinked == IF m.files[a.filepath] # Absent /\ a.force
                    THEN [m EXCEPT !.files[a.filepath] = Absent]
                    ELSE m
        m1 == [unlinked EXCEPT !.call.filetype = filetype]
    IN  IF a.geotypes = PyNone
        THEN Request(m1, <<"geotype">>, "list_geotypes", "")
        ELSE ExportLoop([m1 EXCEPT !.call.geotypes = a.geotypes.list])

\* list_geotypes and list_relations: one _parse_request, of 'geotype' and of
\* [geotype, 'relations'].
list_geotypes(m) == Request(m, <<"geotype">>, "list_geotypes", "")
list_relations(m) ==
    Request(m, <<m.call.args.geotype, "relations">>, "list_relations", "")

\* list_all_objects, from the top to its first request: list_geotypes().
list_all_objects(m) == Request(m, <<"geotype">>, "list_geotypes", "")

\* A get_object_subobjects that answers from the stored table of geotype2.
get_object_subobjectsCached(m) ==
    LET a == m.call.args IN
    IF hasattr(m.attrs, a.geotype2)
    THEN Finish(m, getattr(m.attrs, a.geotype2))
    ELSE Request(m, <<m.attrs["geogeneration"].str, a.geotype, ToString(a.objectid),
                      a.geotype2>>,
                 "get_object_subobjects", "")

\* A get_object that leaves the generation out of the url.
get_objectNoGeneration(m) ==
    LET a == m.call.args IN
    Request(m, <<a.geotype, ToString(a.objectid)>>, "get_object", "")

\* get_object: str(objectid) goes into the url; no attribute is read but the
\* generation.
get_object(m) ==
    LET a == m.call.args IN
    Request(m, <<m.attrs["geogeneration"].str, a.geotype, ToString(a.objectid)>>,
            "get_object", "")

get_object_subobjects(m) ==
    LET a == m.call.args IN
    Request(m, <<m.attrs["geogeneration"].str, a.geotype, ToString(a.objectid),
                 a.geotype2>>,
            "get_object_subobjects", "")

\* A failure that stores the pages read so far under the geotype.
RaiseKeepingPages(m, error) ==
    Finish([m EXCEPT !.attrs =
               IF m.call.wait = "list_objects"
               THEN setattr(m.attrs, m.call.geotype, DataFrame(m.fetch.result, PyNone))
               ELSE m.attrs],
           error)

\* A failure that drops the stored tables.
RaiseDroppingTables(m, error) ==
    Finish([m EXCEPT !.attrs = [n \in AttrNames |->
                                   IF n \in GeoTypes THEN Absent ELSE m.attrs[n]]],
           error)

\* The assertion of _parse_request fails: the error leaves _parse_request and
\* every caller above it, and the call ends with it.
Raise(m, error) == Finish(m, error)

\* _parse_request returned value to the code that called it.
AfterParseRequest(m, value) ==
    LET c == m.call
        m1 == [m EXCEPT !.fetch = NoFetch]
    IN  IF c.wait = "list_objects"
        THEN AfterListObjects([m1 EXCEPT !.attrs = setattr(m.attrs, c.geotype, value)],
                              value)
        ELSE IF c.wait = "list_geotypes" /\ c.op # "list_geotypes"
        THEN IF value.kind = "list"
             THEN IF c.op = "export"
                  THEN ExportLoop([m1 EXCEPT !.call.geotypes = value.list])
                  ELSE SweepLoop([m1 EXCEPT !.call.geotypes = value.list])
             ELSE Finish(m1, OtherError("TypeError"))
        ELSE Finish(m1, value)

(***************************************************************************)
(* The initial state: a client after construction, with a page size, and a *)
(* server with a listing per geotype.  One behaviour is the scenario of a  *)
(* listing of ScenarioTotal records read with the default page size.       *)
(***************************************************************************)
InitAttrs(count) ==
    [n \in AttrNames |->
        IF n \in GeoTypes THEN Absent
        ELSE IF n \in MethodAttrs THEN PyMethod
        ELSE IF n = "count" THEN PyInt(count)
        ELSE IF n = "baseurl" THEN PyStr("https://www.vaarweginformatie.nl/wfswms/dataservice/1.3")
        ELSE IF n = "geogeneration" THEN PyStr(ToString(Generation))
        ELSE IF n = "publication_date" THEN PyStr("2019-09-24")
        ELSE IF n = "service_coordinate_system" THEN PyStr("epsg:4326")
        ELSE PyNone]

\* The destinations out.xlsx and out.txt exist before the client runs.
InitFiles ==
    [f \in FileNames |->
        IF f \in {Path("out", "xlsx"), Path("out", "txt")} THEN OldFile ELSE Absent]

InitClient ==
    /\ files = InitFiles
    /\ call = Idle
    /\ fetch = NoFetch
    /\ done = [op |-> "idle"]
    /\ reqs = <<>>
    /\ ncalls = 0

\* Any small page size, any small listing per geotype.
Init ==
    /\ \E count \in 1..MaxCount : attrs = InitAttrs(count)
    /\ total \in [GeoTypes -> 0..MaxTotal]
    /\ InitClient

\* The scenario: the default page size and a listing of ScenarioTotal bridges.
InitScenario ==
    /\ attrs = InitAttrs(DefaultCount)
    /\ total = [g \in GeoTypes |-> IF g = "bridge" THEN ScenarioTotal ELSE 0]
    /\ InitClient

\* A client whose user has set the export coordinate system.
ExportCrs == PyStr("epsg:28992")
InitCrs ==
    /\ \E count \in 1..MaxCount :
          attrs = [InitAttrs(count) EXCEPT !["export_coordinate_system"] = ExportCrs]
    /\ total \in [GeoTypes -> 0..MaxTotal]
    /\ InitClient

(***************************************************************************)
(* Actions.                                                                *)
(***************************************************************************)
Machine == [attrs |-> attrs, files |-> files, call |-> call, fetch |-> fetch,
            done |-> done]

\* The state after the client ran to machine m.
Becomes(m) ==
    /\ attrs' = m.attrs
    /\ files' = m.files
    /\ call' = m.call
    /\ fetch' = m.fetch
    /\ done' = m.done

\* A top-level call starts.
Begin(op, args) ==
    [Machine EXCEPT !.call = NewCall(op, args, [attrs |-> attrs, files |-> files]),
                    !.done = Running]

CanCall == call = Idle /\ ncalls < MaxCalls

Called ==
    /\ reqs' = <<>>
    /\ ncalls' = ncalls + 1
    /\ UNCHANGED total

CallListObjects(geotype) ==
    /\ CanCall
    /\ LET m == Begin("list_objects", [geotype |-> geotype])
       IN  Becomes(list_objects(m, geotype))
    /\ Called

CallGetObject(geotype, objectid) ==
    /\ CanCall
    /\ Becomes(get_object(Begin("get_object",
                                [geotype |-> geotype, objectid |-> objectid])))
    /\ Called

CallGetObjectSubobjects(geotype, objectid, geotype2) ==
    /\ CanCall
    /\ Becomes(get_object_subobjects(
                  Begin("get_object_subobjects",
                        [geotype |-> geotype, objectid |-> objectid,
                         geotype2 |-> geotype2])))
    /\ Called

CallMergeGeotypes(left_geotype, right_geotype, left_on, right_on) ==
    /\ CanCall
    /\ LET m == Begin("merge_geotypes",
                      [left_geotype |-> left_geotype, right_geotype |-> right_geotype,
                       left_on |-> left_on, right_on |-> right_on])
       IN  Becomes(list_objects(m, left_geotype))
    /\ Called

CallExport(filepath, filetype, force, geotypes) ==
    /\ CanCall
    /\ LET m == Begin("export",
                      [filepath |-> filepath, filetype |-> filetype,
                       force |-> force, geotypes |-> geotypes])
       IN  Becomes(export(m))
    /\ Called

CallListGeotypes ==
    /\ CanCall
    /\ Becomes(list_geotypes(Begin("list_geotypes", [geotype |-> ""])))
    /\ Called

CallListRelations(geotype) ==
    /\ CanCall
    /\ Becomes(list_relations(Begin("list_relations", [geotype |-> geotype])))
    /\ Called

CallListAllObjects ==
    /\ CanCall
    /\ Becomes(list_all_objects(Begin("list_all_objects", [geotype |-> ""])))
    /\ Called

CallFindObjectByValue(geotype, fieldvalue, fieldname) ==
    /\ CanCall
    /\ LET m == Begin("find_object_by_value",
                      [geotype |-> geotype, fieldvalue |-> fieldvalue,
                       fieldname |-> fieldname])
       IN  Becomes(list_objects(m, geotype))
    /\ Called

CallFindObjectByPolygon(geotype, polygon) ==
    /\ CanCall
    /\ LET m == Begin("find_object_by_polygon",
                      [geotype |-> geotype, polygon |-> polygon])
       IN  Becomes(list_objects(m, geotype))
    /\ Called

CallFindClosestObject(geotype, point) ==
    /\ CanCall
    /\ LET m == Begin("find_closest_object", [geotype |-> geotype, point |-> point])
       IN  Becomes(list_objects(m, geotype))
    /\ Called

\* The entry of the request log for a request and its answer.
LogEntry(f, count, resp) ==
    LET paged == resp.ok /\ Contains(resp.body, "Result") IN
    [components |-> f.components, offset |-> f.offset, count |-> count,
     page |-> f.n, kind |-> resp.kind, status |-> resp.status, paged |-> paged,
     Offset |-> IF paged THEN resp.body.dict.Offset ELSE 0,
     Count |-> IF paged THEN resp.body.dict.Count ELSE 0,
     TotalCount |-> IF paged THEN resp.body.dict.TotalCount ELSE 0,
     records |-> IF paged THEN Len(resp.body.dict.Result) ELSE 0]

\* One request of the loop of _parse_request: requests.get(url_page) answered
\* by one of the given answers, and the client's code up to the next request
\* or the end of the call.
Serve(answers) ==
    /\ fetch.active
    /\ fetch.n < MaxRequests
    /\ \E resp \in answers :
          /\ reqs' = Append(reqs, LogEntry(fetch, PageSize(attrs), resp))
          /\ LET out == ParseRequest(fetch, resp, attrs) IN
             IF out.tag = "raise" THEN Becomes(Raise(Machine, out.error))
             ELSE IF out.tag = "next"
             THEN Becomes([Machine EXCEPT
                              !.fetch = [out.fetch EXCEPT !.paging = resp.kind]])
             ELSE Becomes(AfterParseRequest(Machine, out.value))
    /\ UNCHANGED <<total, ncalls>>

\* A request answered in any way the server can answer it.
DoRequest ==
    Serve(Responses(fetch.components, fetch.offset, PageSize(attrs), total,
                    fetch.paging))

\* A request answered by a well-behaved server, or failing.
DoPlainRequest ==
    Serve(PlainResponses(fetch.components, fetch.offset, PageSize(attrs), total))

ObjectIds == 1..2
FileTypes == {PyNone, PyStr("json")}
GeoTypeArgs == {PyNone, JsonList(<<"bridge">>)}

CallFetch ==
    \/ \E g \in GeoNames : CallListObjects(g)
    \/ \E g \in GeoTypes, id \in ObjectIds : CallGetObject(g, id)
    \/ \E g \in GeoTypes, id \in ObjectIds :
          \E g2 \in GeoTypes \ {g} : CallGetObjectSubobjects(g, id, g2)

CallMerge ==
    \E l \in GeoNames, r \in GeoNames : CallMergeGeotypes(l, r, PyNone, PyNone)

CallAnyExport ==
    \E p \in Destinations, t \in FileTypes, force \in BOOLEAN, gs \in GeoTypeArgs :
        CallExport(p, t, force, gs)

Next ==
    \/ CallFetch
    \/ CallMerge
    \/ CallAnyExport
    \/ DoRequest

Spec == Init /\ [][Next]_vars

\* The fetching methods alone, against any server, from the small listings
\* and from the scenario.
NextFetch ==
    \/ CallFetch
    \/ DoRequest

SpecFetch == (Init \/ InitScenario) /\ [][NextFetch]_vars

\* The fetching methods of a client with an export coordinate system.
SpecCrs == InitCrs /\ [][NextFetch]_vars

\* merge_geotypes and list_objects against a well-behaved server.
NextMerge ==
    \/ \E g \in GeoNames : CallListObjects(g)
    \/ CallMerge
    \/ DoPlainRequest

SpecMerge == Init /\ [][NextMerge]_vars

\* export and list_objects against a well-behaved server.
NextExport ==
    \/ \E g \in GeoNames : CallListObjects(g)
    \/ CallAnyExport
    \/ DoPlainRequest

SpecExport == Init /\ [][NextExport]_vars

\* list_all_objects and list_objects against any server.
NextSweep ==
    \/ CallListAllObjects
    \/ \E g \in GeoTypes : CallListObjects(g)
    \/ DoRequest

SpecSweep == Init /\ [][NextSweep]_vars

\* The values and the field names a caller looks for: two names of the
\* fixture and one no record has; the default field and one no record has.
FieldValues == {"Noord", "Zuid", "Oost"}
FieldNames == {"Name", "Height"}

\* find_object_by_value and list_objects against any server.
NextFind ==
    \/ \E g \in GeoNames, v \in FieldValues, n \in FieldNames :
          CallFindObjectByValue(g, v, n)
    \/ \E g \in GeoTypes : CallListObjects(g)
    \/ DoRequest

SpecFind == Init /\ [][NextFind]_vars

\* The server's data changes: every listing gets another number of records.
ServerChanges ==
    /\ total' = [g \in GeoTypes |-> MaxTotal - total[g]]
    /\ total' # total
    /\ UNCHANGED <<attrs, files, call, fetch, done, reqs, ncalls>>

\* Names passed as geotype in a session: the server's geotypes and the name
\* of a session attribute.
SessionGeoNames == GeoTypes \cup {"geogeneration"}

\* A square around the points 1..MaxTotal-1, and a point next to them.
Square == [lo |-> 0, hi |-> MaxTotal]
Origin == [type |-> "Point", x |-> 0, y |-> 0]

\* Every method of the client, called in any order.
CallSession ==
    \/ CallListGeotypes
    \/ \E g \in GeoTypes : CallListRelations(g)
    \/ \E g \in SessionGeoNames : CallListObjects(g)
    \/ CallListAllObjects
    \/ \E g \in GeoTypes : CallGetObject(g, 1)
    \/ \E g \in GeoTypes : \E g2 \in GeoTypes \ {g} : CallGetObjectSubobjects(g, 1, g2)
    \/ \E g \in SessionGeoNames : CallFindObjectByValue(g, "Zuid", "Name")
    \/ \E g \in SessionGeoNames : CallFindObjectByPolygon(g, Square)
    \/ \E g \in SessionGeoNames : CallFindClosestObject(g, Origin)
    \/ \E l \in SessionGeoNames : CallMergeGeotypes(l, "opening", PyNone, PyNone)
    \/ \E p \in {Path("out", "xlsx"), Path("out", "csv")}, gs \in GeoTypeArgs :
          CallExport(p, PyNone, TRUE, gs)

\* A session: every method, a server that answers every request with the
\* requested page or fails, and data that changes on the server.
NextSession ==
    \/ CallSession
    \/ DoPlainRequest
    \/ ServerChanges

\* A session starts with listings of one size for every geotype.
InitSession ==
    /\ \E count \in 1..MaxCount : attrs = InitAttrs(count)
    /\ \E n \in 1..MaxTotal : total = [g \in GeoTypes |-> n]
    /\ InitClient

SpecSession == InitSession /\ [][NextSession]_vars

\* list_objects called with every name the client object has an attribute
\* for, and with the server's geotypes, against any server.
NextAttr ==
    \/ \E g \in AttrNames : CallListObjects(g)
    \/ DoRequest

SpecAttr == Init /\ [][NextAttr]_vars

\* The join keys a caller passes, left_on and right_on: none, one of the two,
\* both, with a column of both tables, an empty list, and a label no table
\* has as a column.
KeyArgs == {<<PyNone, PyNone>>,
            <<JsonList(<<"ParentId">>), PyNone>>,
            <<PyNone, JsonList(<<"Id">>)>>,
            <<JsonList(<<"ParentId">>), JsonList(<<"Id">>)>>,
            <<PyStr("Height"), PyNone>>,
            <<JsonList(<<"ParentId">>), JsonList(<<>>)>>,
            <<PyStr("Height"), JsonList(<<"Id">>)>>}

\* merge_geotypes with and without join keys against a well-behaved server.
NextKeys ==
    \/ \E l \in GeoTypes, r \in GeoTypes, on \in KeyArgs :
          CallMergeGeotypes(l, r, on[1], on[2])
    \/ DoPlainRequest

SpecKeys == Init /\ [][NextKeys]_vars

(***************************************************************************)
(* Properties.                                                             *)
(***************************************************************************)
\* A call of op has ended and nothing has been called since.
Ended(op) == call = Idle /\ done.op = op

\* The last entry of the request log.
LastReq == reqs[Len(reqs)]

\* The server answered request i of the log with the slice of a listing of
\* t records that the request asked for.
AnsweredFromListing(i, t) ==
    LET r == reqs[i]
        upto == IF r.offset + r.count < t THEN r.offset + r.count ELSE t
    IN  /\ r.paged
        /\ r.Offset = r.offset
        /\ r.TotalCount = t
        /\ r.records = (IF upto > r.offset THEN upto - r.offset ELSE 0)
        /\ r.Count \in {r.records, r.count}

\* Request i of the log was followed by a request for a further page of the
\* same fetch, or such a request is the next thing the client does.
FurtherPageAfter(i) ==
    IF i < Len(reqs)
    THEN /\ reqs[i + 1].page = reqs[i].page + 1
         /\ reqs[i + 1].components = reqs[i].components
    ELSE /\ fetch.active
         /\ fetch.n = reqs[i].page + 1
         /\ fetch.components = reqs[i].components

\* C1: when the server answers every request of list_objects(geotype) with
\* the requested slice of a fixed listing, the table returned holds every
\* record of the listing exactly once, in listing order, whatever the page
\* size: its length is the TotalCount of the final page, and row i is record
\* i of the geotype.
C1_ListObjectsReturnsTheListing ==
    ( /\ Ended("list_objects")
      /\ reqs # <<>>
      /\ \A i \in DOMAIN reqs : AnsweredFromListing(i, total[done.args.geotype]) )
    => /\ done.result.kind = "df"
       /\ Len(done.result.rows) = LastReq.TotalCount
       /\ Len(done.result.rows) = total[done.args.geotype]
       /\ \A i \in DOMAIN done.result.rows :
             /\ done.result.rows[i].Id = i
             /\ done.result.rows[i].GeoType = done.args.geotype
             /\ done.result.rows[i].Name = Rec(done.args.geotype, i).Name

\* C1 witness: a listing of MaxTotal records was read in more than one page.
C1_Witness ==
    /\ Ended("list_objects")
    /\ Len(reqs) >= 2
    /\ \A i \in DOMAIN reqs : AnsweredFromListing(i, total[done.args.geotype])
    /\ done.result.kind = "df"
    /\ Len(done.result.rows) = MaxTotal

\* C2: a list_objects(geotype) for a geotype that an earlier list_objects
\* stored returns the stored table itself, sends no request and leaves every
\* attribute as it was.
C2_SecondCallIsServedFromTheCache ==
    ( /\ Ended("list_objects")
      /\ done.args.geotype \in GeoTypes
      /\ done.before.attrs[done.args.geotype] # Absent )
    => /\ reqs = <<>>
       /\ done.result = done.before.attrs[done.args.geotype]
       /\ attrs = done.before.attrs

\* C2 witness: the second of two calls returned a stored table of two or
\* more records.
C2_Witness ==
    /\ Ended("list_objects")
    /\ ncalls = 2
    /\ done.args.geotype \in GeoTypes
    /\ done.before.attrs[done.args.geotype].kind = "df"
    /\ Len(done.before.attrs[done.args.geotype].rows) >= 2
    /\ done.result = done.before.attrs[done.args.geotype]

\* The two-page scenario: the default page size, ScenarioTotal bridges, and a
\* list_objects('bridge') whose requests the server answers from the listing.
InScenario ==
    /\ PageSize(attrs) = DefaultCount
    /\ total["bridge"] = ScenarioTotal
    /\ reqs # <<>>
    /\ \A i \in DOMAIN reqs :
          /\ reqs[i].components = <<ToString(Generation), "bridge">>
          /\ AnsweredFromListing(i, ScenarioTotal)

\* C3: after every page the client asks for a further page of the fetch if
\* and only if Offset + Count < TotalCount as that page reported them; and
\* the scenario's listing is read with exactly two requests, never a third,
\* into a table of ScenarioTotal records.
C3_FurtherPageIffMoreReported ==
    /\ \A i \in DOMAIN reqs :
          reqs[i].paged =>
             (FurtherPageAfter(i) <=> reqs[i].Offset + reqs[i].Count < reqs[i].TotalCount)
    /\ InScenario =>
          /\ Len(reqs) <= 2
          /\ Len(reqs) = 2 => ~fetch.active
          /\ Ended("list_objects") =>
                /\ Len(reqs) = 2
                /\ done.result.kind = "df"
                /\ Len(done.result.rows) = ScenarioTotal

\* C3 witness: the scenario's list_objects('bridge') has returned.
C3_Witness ==
    /\ InScenario
    /\ Ended("list_objects")
    /\ Len(reqs) = 2
    /\ reqs[1].records = DefaultCount
    /\ reqs[2].offset = DefaultCount
    /\ Len(done.result.rows) = ScenarioTotal

\* C4: when a request of a call gets a non-success status, the call ends at
\* that request with an error that names the url of the request and the
\* response; the caller gets no result.
C4_FailedRequestRaises ==
    \A i \in DOMAIN reqs :
        reqs[i].kind = "fail" =>
            /\ i = Len(reqs)
            /\ call = Idle
            /\ ~fetch.active
            /\ done.result.kind = "error"
            /\ done.result.type = "AssertionError"
            /\ done.result.url = reqs[i].components
            /\ done.result.response = reqs[i].status

\* C4 witness: the second page request of a fetch failed.
C4_Witness ==
    /\ Len(reqs) = 2
    /\ reqs[2].kind = "fail"
    /\ reqs[2].page = 1
    /\ call = Idle
    /\ done.result.kind = "error"

\* A top-level call of op starts in this step.
Starts(op) ==
    /\ call = Idle
    /\ ncalls' = ncalls + 1
    /\ IF call' = Idle THEN done'.op = op ELSE call'.op = op
StartedArgs == IF call' = Idle THEN done'.args ELSE call'.args

\* C5: a list_objects(geotype) that a failed request ended leaves the
\* attributes as they were before the call, the geotype without a stored
\* table and no fetch in progress; the next list_objects(geotype) sends its
\* first request again, at offset 0 and with no record kept.
C5_FailedFetchLeavesNoTrace ==
    /\ []( ( /\ Ended("list_objects")
             /\ done.result.kind = "error" )
           => /\ attrs = done.before.attrs
              /\ attrs[done.args.geotype] = Absent
              /\ fetch = NoFetch )
    /\ [][ ( /\ Ended("list_objects")
             /\ done.result.kind = "error"
             /\ Starts("list_objects")
             /\ StartedArgs.geotype = done.args.geotype )
           => /\ call'.op = "list_objects"
              /\ fetch' = StartFetch(<<ToString(Generation), done.args.geotype>>)
              /\ fetch'.offset = 0
              /\ fetch'.result = <<>>
              /\ reqs' = <<>> ]_vars

\* C5 witness: a list_objects failed at its second page request.
C5_Witness ==
    /\ Ended("list_objects")
    /\ done.result.kind = "error"
    /\ Len(reqs) = 2
    /\ reqs[1].records >= 1
    /\ reqs[2].kind = "fail"
    /\ attrs[done.args.geotype] = Absent

\* The file type export works with.
ExportFileType(a) ==
    IF a.filetype = PyNone THEN a.filepath.suffix ELSE a.filetype.str

\* C6 as stated, of the file types export writes and a server that answers
\* every request: an export with force=False to a destination that exists
\* fails with an error before anything is written: the destination is as it
\* was and no other file is written.
C6_Original_ExistingDestinationRefused ==
    ( /\ Ended("export")
      /\ ~done.args.force
      /\ done.before.files[done.args.filepath] # Absent
      /\ ExportFileType(done.args) \in {"xlsx", "xls", "csv"}
      /\ \A i \in DOMAIN reqs : reqs[i].kind # "fail" )
    => /\ done.result.kind = "error"
       /\ done.result.type = "FileExistsError"
       /\ files = done.before.files

\* C7 as stated: an export with a file type other than xlsx, xls and csv
\* fails with an error, and nothing was deleted, written or requested.
C7_Original_UnsupportedFormatRefused ==
    ( /\ Ended("export")
      /\ ExportFileType(done.args) \notin {"xlsx", "xls", "csv"} )
    => /\ done.result.kind = "error"
       /\ done.result.type = "NotImplementedError"
       /\ files = done.before.files
       /\ reqs = <<>>

\* The methods that are one _parse_request.
FetchOps == {"list_objects", "get_object", "get_object_subobjects"}

\* The number of records the answers 1..n of the log carried.
RECURSIVE RecordsUpTo(_)
RecordsUpTo(n) == IF n = 0 THEN 0 ELSE RecordsUpTo(n - 1) + reqs[n].records

OpaqueBodies == {a.body : a \in OpaqueAnswers}

\* What the client makes of the answer that ended a fetch: the pages it read
\* if the answer has a Result key, with or without a Geometry key; a table
\* of the one object if it has a Geometry key only; the body itself if it
\* has neither.
ClassifiedByShape ==
    /\ LastReq.paged =>
          /\ done.result.kind = "df"
          /\ Len(done.result.rows) = RecordsUpTo(Len(reqs))
          /\ \A k \in DOMAIN done.result.rows : "Id" \in DOMAIN done.result.rows[k]
    /\ LastReq.kind = "object" =>
          /\ done.result.kind = "df"
          /\ Len(done.result.rows) = 1
          /\ done.result.rows[1].Id \in 1..MaxTotal
          /\ done.result.rows[1].GeoType = done.args.geotype
    /\ LastReq.kind = "opaque" => done.result \in OpaqueBodies

\* C8 as stated: every answer is taken as a page, as one object or as an
\* opaque body, in this priority, and an opaque body is returned as it is
\* after exactly one request.
C8_Original_OpaqueAfterOneRequest ==
    ( /\ call = Idle
      /\ done.op \in FetchOps
      /\ reqs # <<>>
      /\ LastReq.kind # "fail" )
    => /\ ClassifiedByShape
       /\ LastReq.kind = "opaque" => Len(reqs) = 1

\* C8 as amended: every answer is taken as a page, as one object or as an
\* opaque body, in this priority; an answer that is no page ends the fetch,
\* no request follows it, and an opaque body is returned as it is (after
\* exactly one request when it answers the first request of the fetch).
C8_AnswerClassifiedByShape ==
    /\ ( /\ call = Idle
         /\ done.op \in FetchOps
         /\ reqs # <<>>
         /\ LastReq.kind # "fail" )
       => /\ ClassifiedByShape
          /\ (LastReq.kind = "opaque" /\ LastReq.page = 0) => Len(reqs) = 1
    /\ \A i \in DOMAIN reqs :
          reqs[i].kind \in {"object", "opaque"} =>
             /\ i = Len(reqs)
             /\ ~fetch.active
             /\ call = Idle

\* C8 witness: an opaque body answered the second request of a fetch and was
\* returned as it is.
C8_Witness ==
    /\ Ended("list_objects")
    /\ Len(reqs) = 2
    /\ reqs[1].records >= 1
    /\ LastReq.kind = "opaque"
    /\ done.result \in OpaqueBodies

\* The string form of the object ids the callers use.
IdString(objectid) == IF objectid = 1 THEN "1" ELSE "2"

\* The url of get_object and get_object_subobjects.
ObjectUrl(op, a) ==
    IF op = "get_object"
    THEN <<"7", a.geotype, IdString(a.objectid)>>
    ELSE <<"7", a.geotype, IdString(a.objectid), a.geotype2>>

ObjectOps == {"get_object", "get_object_subobjects"}

\* C9 as stated, of the calls that a well-behaved server answered and that
\* returned: get_object and get_object_subobjects send exactly one request,
\* to {generation}/{geotype}/{objectid}[/{geotype2}], stored table or not, and
\* leave the attributes as they were.
C9_Original_ExactlyOneRequest ==
    ( /\ call = Idle
      /\ done.op \in ObjectOps
      /\ done.result.kind # "error"
      /\ \A i \in DOMAIN reqs : reqs[i].kind \in {"honest", "object"} )
    => /\ Len(reqs) = 1
       /\ reqs[1].components = ObjectUrl(done.op, done.args)
       /\ attrs = done.before.attrs

\* C9 as amended: get_object and get_object_subobjects never read or write
\* the stored tables; they send at least one request, stored table or not,
\* every request goes to {generation}/{geotype}/{objectid}[/{geotype2}] with
\* the object id in string form, and a request is followed by another one
\* only when its answer is a listing page with Offset + Count < TotalCount.
C9_ObjectCallsBypassTheCache ==
    /\ ( call # Idle /\ call.op \in ObjectOps )
       => /\ attrs = call.before.attrs
          /\ fetch.active
          /\ fetch.components = ObjectUrl(call.op, call.args)
          /\ \A i \in DOMAIN reqs :
                /\ reqs[i].components = ObjectUrl(call.op, call.args)
                /\ reqs[i].paged
                /\ reqs[i].Offset + reqs[i].Count < reqs[i].TotalCount
    /\ ( call = Idle /\ done.op \in ObjectOps )
       => /\ attrs = done.before.attrs
          /\ Len(reqs) >= 1
          /\ \A i \in DOMAIN reqs :
                /\ reqs[i].components = ObjectUrl(done.op, done.args)
                /\ reqs[i].page = i - 1
                /\ i < Len(reqs) =>
                      /\ reqs[i].paged
                      /\ reqs[i].Offset + reqs[i].Count < reqs[i].TotalCount
          /\ ( LastReq.paged /\ LastReq.kind # "fail" )
             => ~(LastReq.Offset + LastReq.Count < LastReq.TotalCount)

\* C9 witness: get_object_subobjects read the sub-objects of an object in
\* two pages while the table of geotype2 was stored.
C9_Witness ==
    /\ Ended("get_object_subobjects")
    /\ done.before.attrs[done.args.geotype2] # Absent
    /\ Len(reqs) = 2
    /\ reqs[2].kind = "honest"
    /\ done.result.kind = "df"
    /\ Len(done.result.rows) = 2

\* Whether a left and a right record are a pair of the join merge_geotypes
\* makes without join keys.
IsPair(l, r, df_r) ==
    IF "ParentGeoType" \in Columns(df_r)
    THEN l.GeoType = r.ParentGeoType /\ l.Id = r.ParentId
    ELSE l.Id = r.ParentId

\* Whether row is the join of l and r: the left columns under their names,
\* the right columns under theirs, suffixed where the left has the name too.
IsJoinOf(row, l, r, right_geotype) ==
    /\ DOMAIN row = DOMAIN l
                    \cup {c \o "_" \o right_geotype : c \in DOMAIN l \cap DOMAIN r}
                    \cup (DOMAIN r \ DOMAIN l)
    /\ \A c \in DOMAIN l : row[c] = l[c]
    /\ \A c \in DOMAIN r :
          IF c \in DOMAIN l THEN row[c \o "_" \o right_geotype] = r[c]
          ELSE row[c] = r[c]

ThisCall == IF call = Idle THEN done ELSE call

\* The place of a geotype in the catalog list_geotypes returns.
Pos(g) == CHOOSE i \in DOMAIN GeoTypeList : GeoTypeList[i] = g

\* Request i of the log goes to the listing of geotype g.
ListingRequest(i, g) == reqs[i].components = <<ToString(Generation), g>>

\* C11: list_all_objects asks for the catalog first and then fetches the
\* geotypes without a stored table one after the other in catalog order;
\* when it returns, every geotype of the catalog has a stored value; when a
\* request fails, the call ends with that error at that request, the
\* geotype being fetched has no stored table, the geotypes before it in the
\* catalog have theirs, and the geotypes after it are as they were and were
\* not requested.
C11_SweepInCatalogOrder ==
    ThisCall.op = "list_all_objects" =>
        LET before == ThisCall.before.attrs IN
        /\ reqs # <<>> => reqs[1].components = <<"geotype">>
        /\ \A i \in 2..Len(reqs) :
              \E g \in GeoTypes : ListingRequest(i, g) /\ before[g] = Absent
        /\ \A i, j \in 2..Len(reqs) :
              \A g, h \in GeoTypes :
                 (i < j /\ ListingRequest(i, g) /\ ListingRequest(j, h))
                    => Pos(g) <= Pos(h)
        /\ (call = Idle /\ done.result = PyNone) =>
              \A g \in GeoTypes :
                 /\ attrs[g] # Absent
                 /\ before[g] # Absent => attrs[g] = before[g]
                 /\ before[g] = Absent => \E i \in 2..Len(reqs) : ListingRequest(i, g)
        /\ (call = Idle /\ done.result # PyNone) =>
              /\ done.result.kind = "error"
              /\ LastReq.kind = "fail"
              /\ Len(reqs) = 1 => attrs = before
              /\ \A g \in GeoTypes :
                    ListingRequest(Len(reqs), g) =>
                       /\ attrs[g] = Absent
                       /\ \A h \in GeoTypes :
                             /\ Pos(h) < Pos(g) => attrs[h] # Absent
                             /\ Pos(h) > Pos(g) => attrs[h] = before[h]

\* C11 witness: the sweep fetched the first geotype of the catalog in two
\* pages and failed at the second geotype.
C11_Witness ==
    /\ Ended("list_all_objects")
    /\ done.result.kind = "error"
    /\ Len(reqs) = 4
    /\ ListingRequest(2, GeoTypeList[1])
    /\ ListingRequest(3, GeoTypeList[1])
    /\ ListingRequest(4, GeoTypeList[2])
    /\ attrs[GeoTypeList[1]].kind = "df"
    /\ Len(attrs[GeoTypeList[1]].rows) = 2
    /\ attrs[GeoTypeList[2]] = Absent

\* C12 as stated, of a server that answers every request with the requested
\* slice of its listing and of the default field Name: find_object_by_value
\* returns a table of exactly the records of the collection whose Name
\* equals fieldvalue, an empty table when no record matches.
C12_Original_UnmatchedValueGivesEmptyResult ==
    ( /\ Ended("find_object_by_value")
      /\ done.args.geotype \in GeoTypes
      /\ done.args.fieldname = "Name"
      /\ attrs[done.args.geotype].kind = "df"
      /\ \A i \in DOMAIN reqs : AnsweredFromListing(i, total[done.args.geotype]) )
    => /\ done.result.kind = "df"
       /\ \A k \in DOMAIN done.result.rows :
             done.result.rows[k].Name = done.args.fieldvalue
       /\ \A i \in DOMAIN attrs[done.args.geotype].rows :
             attrs[done.args.geotype].rows[i].Name = done.args.fieldvalue
                => \E k \in DOMAIN done.result.rows :
                      done.result.rows[k] = attrs[done.args.geotype].rows[i]

\* C12 of the code as it is: find_object_by_value(geotype, fieldvalue,
\* fieldname) sends no request when the geotype has a stored value and the
\* requests of one fetch
\* of the geotype otherwise, and leaves every stored value as it was; when
\* the collection of the geotype is a table with the column fieldname, it
\* returns a new table of exactly the rows of the collection whose fieldname
\* equals fieldvalue, in their order (none when no record matches);
\* otherwise (a table without the column, as the table of an empty listing
\* is, or a value that is no table) it ends with an error.
C12_FindReturnsTheMatchingRecords ==
    Ended("find_object_by_value") =>
        LET g == done.args.geotype
            before == done.before.attrs
            coll == attrs[g]
            matching == {i \in DOMAIN coll.rows :
                            coll.rows[i][done.args.fieldname] = done.args.fieldvalue}
        IN  /\ before[g] # Absent => (reqs = <<>> /\ attrs = before)
            /\ \A i \in DOMAIN reqs :
                  /\ ListingRequest(i, g)
                  /\ reqs[i].page = i - 1
            /\ \A h \in AttrNames : h # g => attrs[h] = before[h]
            /\ IF coll.kind = "df" /\ done.args.fieldname \in Columns(coll)
               THEN /\ done.result.kind = "df"
                    /\ Len(done.result.rows) = Cardinality(matching)
                    /\ \A i \in matching :
                          \E k \in DOMAIN done.result.rows : done.result.rows[k] = coll.rows[i]
                    /\ \A k \in DOMAIN done.result.rows :
                          \E i \in matching : done.result.rows[k] = coll.rows[i]
                    /\ \A k, l \in DOMAIN done.result.rows :
                          k < l => done.result.rows[k].Id < done.result.rows[l].Id
               ELSE done.result.kind = "error"

\* C12 witness: of a collection of three records fetched by the call, the
\* two records with the name looked for were returned.
C12_Witness ==
    /\ Ended("find_object_by_value")
    /\ done.args.fieldname = "Name"
    /\ reqs # <<>>
    /\ attrs[done.args.geotype].kind = "df"
    /\ Len(attrs[done.args.geotype].rows) = 3
    /\ done.result.kind = "df"
    /\ Len(done.result.rows) = 2
    /\ done.result.rows[1].Id = 1
    /\ done.result.rows[2].Id = 3

\* C13 as stated: the generation is the first path component of every
\* request whose path names a geotype.
C13_Original_EveryGeotypePathHasTheGeneration ==
    \A i \in DOMAIN reqs :
        (\E k \in DOMAIN reqs[i].components : reqs[i].components[k] \in GeoTypes)
            => reqs[i].components[1] = ToString(Generation)

\* C13 as amended: the generation found at construction is the first path
\* component of every request of list_objects, get_object and
\* get_object_subobjects, also when another method calls them, followed by
\* the geotype; the request of list_relations has the path
\* {geotype}/relations without the generation, and the catalog request has
\* the path geotype.
C13_GenerationPrefixesObjectRequests ==
    \A i \in DOMAIN reqs :
        LET c == reqs[i].components IN
        IF ThisCall.op = "list_relations"
        THEN c = <<ThisCall.args.geotype, "relations">>
        ELSE IF c = <<"geotype">>
        THEN ThisCall.op \in {"list_geotypes", "list_all_objects", "export"}
        ELSE /\ Len(c) \in 2..4
             /\ c[1] = ToString(Generation)
             /\ c[1] = attrs["geogeneration"].str
             /\ c[2] \in GeoTypes

\* C13 witness: a get_object sent its request, a stored table or not, to
\* {generation}/{geotype}/{objectid}.
C13_Witness ==
    /\ Ended("get_object")
    /\ ncalls = 2
    /\ Len(reqs) = 1
    /\ reqs[1].components = <<ToString(Generation), done.args.geotype, "1">>
    /\ done.result.kind = "df"

\* C14: once a geotype has a stored value, no step of any method, failing or
\* not, replaces or removes it, whatever the server's data have become; and
\* every later list_objects(geotype) returns that value without a request.
C14_StoredTableIsNeverReplaced ==
    /\ [][ \A g \in GeoTypes : attrs[g] # Absent => attrs'[g] = attrs[g] ]_vars
    /\ []( ( /\ Ended("list_objects")
             /\ done.args.geotype \in GeoTypes
             /\ done.before.attrs[done.args.geotype] # Absent )
           => /\ done.result = done.before.attrs[done.args.geotype]
              /\ done.result = attrs[done.args.geotype]
              /\ reqs = <<>> )

\* C14 witness: list_objects returned the stored table of a geotype of which
\* the server by now lists another number of records.
C14_Witness ==
    /\ Ended("list_objects")
    /\ ncalls = 2
    /\ done.args.geotype \in GeoTypes
    /\ done.before.attrs[done.args.geotype].kind = "df"
    /\ Len(done.before.attrs[done.args.geotype].rows) >= 2
    /\ total[done.args.geotype] # Len(done.before.attrs[done.args.geotype].rows)
    /\ total[done.args.geotype] >= 1
    /\ done.result = done.before.attrs[done.args.geotype]
    /\ reqs = <<>>

\* C15: the attributes __init__ set (base url, generation, publication
\* date, service and export coordinate system) are what they were after
\* construction in every state, whatever methods were called with whatever
\* geotype names, the name of a session attribute included.
C15_SessionStateIsNeverChanged ==
    \A n \in SessionAttrs : attrs[n] = InitAttrs(DefaultCount)[n]

\* C15 witness: list_objects was called with the name of a session
\* attribute; it returned the attribute's value and sent no request.
C15_Witness ==
    /\ Ended("list_objects")
    /\ done.args.geotype = "geogeneration"
    /\ done.result = PyStr(ToString(Generation))
    /\ reqs = <<>>
    /\ attrs["geogeneration"] = PyStr(ToString(Generation))

\* C16 as stated: when a body with neither a Result nor a Geometry key
\* answers the request of list_objects(geotype), the body is returned as it
\* is and the geotype has no stored value afterwards, so that the next
\* list_objects(geotype) sends a request.
C16_Original_OpaqueBodyIsNotStored ==
    ( /\ Ended("list_objects")
      /\ done.args.geotype \in GeoTypes
      /\ Len(reqs) = 1
      /\ LastReq.kind = "opaque" )
    => /\ done.result \in OpaqueBodies
       /\ attrs[done.args.geotype] = Absent

\* C17 as stated: with an export coordinate system set, the table that
\* list_objects returns and stores, when its geometries were parsed, has
\* every geometry in the export coordinate system: the point the server
\* sent, reprojected.
C17_Original_GeometriesInExportCrs ==
    ( /\ Ended("list_objects")
      /\ done.args.geotype \in GeoTypes
      /\ attrs["export_coordinate_system"] # PyNone
      /\ HasGeometries(done.result) )
    => /\ attrs[done.args.geotype] = done.result
       /\ done.result.crs = attrs["export_coordinate_system"]
       /\ \A k \in DOMAIN done.result.rows :
             done.result.rows[k].geometry
                = Reproject(WktLoads(Rec(done.result.rows[k].GeoType,
                                         done.result.rows[k].Id).Geometry.wkt))

\* The geometry text the server sent for a row of a table.
SentGeometry(row) == Rec(row.GeoType, row.Id).Geometry

\* C18: a fetch whose requests were all answered does not raise; when the
\* geometry text of one of the records it read is no well-known text, the
\* table returned has every record read, under the column geometry and with
\* the text of every record as the server sent it, and list_objects stores
\* that table; when every text is well-known text, every geometry is parsed.
C18_ParseFailureLeavesGeometryRaw ==
    ( /\ call = Idle
      /\ done.op \in FetchOps
      /\ reqs # <<>>
      /\ LastReq.kind # "fail" )
    => /\ done.result.kind # "error"
       /\ done.op = "list_objects" => attrs[done.args.geotype] = done.result
       /\ ( done.result.kind = "df" /\ done.result.rows # <<>> ) =>
             LET rows == done.result.rows IN
             /\ Len(rows) = (IF LastReq.paged THEN RecordsUpTo(Len(reqs)) ELSE 1)
             /\ \A k \in DOMAIN rows :
                   /\ "geometry" \in DOMAIN rows[k]
                   /\ "Geometry" \notin DOMAIN rows[k]
             /\ IF \E k \in DOMAIN rows : ~IsWkt(SentGeometry(rows[k]).wkt)
                THEN \A k \in DOMAIN rows : rows[k].geometry = SentGeometry(rows[k])
                ELSE \A k \in DOMAIN rows :
                        rows[k].geometry = WktLoads(SentGeometry(rows[k]).wkt)

\* C18 witness: list_objects read three records in two pages, the text of
\* the third is no well-known text, and the table with the three texts as
\* sent is stored.
C18_Witness ==
    /\ Ended("list_objects")
    /\ done.args.geotype \in GeoTypes
    /\ Len(reqs) = 2
    /\ done.result.kind = "df"
    /\ Len(done.result.rows) = 3
    /\ done.result.rows[1].geometry = WktText(PointWkt(1))
    /\ done.result.rows[3].geometry = WktText(BadWkt)
    /\ attrs[done.args.geotype] = done.result

\* C19: request number k (k = 0, 1, 2, ...) of a fetch is sent with offset
\* k * page size and count page size, whatever Offset and Count the answers
\* reported, and only once request k - 1 is answered; so when the server
\* returns one record per page of more than one, the table has the records
\* at the requested offsets only and the records between them are missing.
C19_OffsetsStepByPageSize ==
    /\ \A i \in DOMAIN reqs :
          /\ reqs[i].page = i - 1
          /\ reqs[i].count = PageSize(attrs)
          /\ reqs[i].offset = (i - 1) * PageSize(attrs)
    /\ fetch.active =>
          /\ fetch.n = Len(reqs)
          /\ fetch.offset = Len(reqs) * PageSize(attrs)
    /\ ( /\ Ended("list_objects")
         /\ reqs # <<>>
         /\ \A i \in DOMAIN reqs : reqs[i].kind = "short" )
       => /\ done.result.kind = "df"
          /\ \A k \in DOMAIN done.result.rows :
                done.result.rows[k].Id = (k - 1) * PageSize(attrs) + 1
          /\ \A k \in DOMAIN done.result.rows :
                \A j \in 2..PageSize(attrs) :
                   done.result.rows[k].Id # (k - 1) * PageSize(attrs) + j

\* C19 witness: of a listing of MaxTotal records read with page size
\* MaxCount from a server that returns one record per page, the table has
\* the first record and the record at offset MaxCount, and not the second.
C19_Witness ==
    /\ Ended("list_objects")
    /\ done.args.geotype \in GeoTypes
    /\ PageSize(attrs) = MaxCount
    /\ total[done.args.geotype] = MaxTotal
    /\ Len(reqs) = 2
    /\ \A i \in DOMAIN reqs : reqs[i].kind = "short"
    /\ reqs[1].Count = 1
    /\ reqs[2].offset = MaxCount
    /\ Len(done.result.rows) = 2
    /\ done.result.rows[1].Id = 1
    /\ done.result.rows[2].Id = MaxCount + 1

\* The answer to request i of the log ends the fetch: it is a failure, a
\* body that is no page, or a page with Offset + Count >= TotalCount.
FinalAnswer(i) ==
    ~(reqs[i].paged /\ reqs[i].Offset + reqs[i].Count < reqs[i].TotalCount)

\* ceil(t / c), and at least one.
RequestsFor(t, c) == IF t = 0 THEN 1 ELSE (t + c - 1) \div c

\* C20: the fetch ends at the first answer that is a failure, a body that is
\* no page or a page with Offset + Count >= TotalCount, and at no other
\* answer: while every answer is a page that reports more to come the fetch
\* goes on to its next request, without any other bound.  A fetch that a
\* server answers from a fixed listing of T records is still running after
\* fewer than max(1, ceil(T / page size)) requests and has ended after
\* exactly that many.
C20_FetchEndsAtTheFinalAnswer ==
    /\ \A i \in DOMAIN reqs :
          IF FinalAnswer(i)
          THEN i = Len(reqs) /\ ~fetch.active /\ call = Idle
          ELSE i < Len(reqs) \/ (fetch.active /\ fetch.n = Len(reqs))
    /\ ( /\ ThisCall.op \in FetchOps
         /\ reqs # <<>>
         /\ \A i \in DOMAIN reqs : AnsweredFromListing(i, reqs[1].TotalCount) )
       => IF call = Idle
          THEN Len(reqs) = RequestsFor(reqs[1].TotalCount, PageSize(attrs))
          ELSE Len(reqs) < RequestsFor(reqs[1].TotalCount, PageSize(attrs))

\* C20 witness: every answer of a fetch so far was a page that reported more
\* to come, and after MaxRequests requests the fetch has not ended.
C20_Witness ==
    /\ Len(reqs) = MaxRequests
    /\ \A i \in DOMAIN reqs : reqs[i].kind = "endless"
    /\ fetch.active
    /\ fetch.offset = MaxRequests * PageSize(attrs)

\* C21: list_objects(geotype) with the name of an attribute the client has
\* from its class or from __init__ (count, baseurl, geogeneration, ..., the
\* methods such as export) ends at once: no call with such a name is ever
\* waiting for a request, it returns the value of the attribute, its request
\* log is empty and every attribute, the named one included, is what it was
\* before the call.
C21_AnyAttributeIsACacheHit ==
    ( /\ ThisCall.op = "list_objects"
      /\ ThisCall.args.geotype \in BuiltinAttrs )
    => /\ call = Idle
       /\ ~fetch.active
       /\ reqs = <<>>
       /\ done.result = getattr(done.before.attrs, done.args.geotype)
       /\ attrs = done.before.attrs

\* C21 witness: after a listing was fetched and stored, list_objects('export')
\* returned the method and sent no request.
C21_Witness ==
    /\ Ended("list_objects")
    /\ done.args.geotype = "export"
    /\ done.result = PyMethod
    /\ reqs = <<>>
    /\ ncalls = 2
    /\ \E g \in GeoTypes : attrs[g] # Absent /\ attrs[g].kind = "df"
    /\ attrs["export"] = PyMethod

\* Whether the result of the last merge_geotypes is the inner join of the two
\* stored tables under the pairing Pair: one row for every pair of a left and
\* a right record that Pair holds for, and no other row.
JoinedBy(Pair(_, _)) ==
    LET df_l == attrs[done.args.left_geotype]
        df_r == attrs[done.args.right_geotype]
        rg == done.args.right_geotype
        rows == done.result.rows
        pairs == {p \in (DOMAIN df_l.rows) \X (DOMAIN df_r.rows) :
                     Pair(df_l.rows[p[1]], df_r.rows[p[2]])}
    IN  /\ done.result.kind = "df"
        /\ Len(rows) = Cardinality(pairs)
        /\ \A p \in pairs :
              Cardinality({k \in DOMAIN rows :
                  IsJoinOf(rows[k], df_l.rows[p[1]], df_r.rows[p[2]], rg)}) = 1
        /\ \A k \in DOMAIN rows :
              \E p \in pairs :
                  IsJoinOf(rows[k], df_l.rows[p[1]], df_r.rows[p[2]], rg)

\* The last call was a merge_geotypes of two tables that have records.
MergedTwoTables ==
    /\ Ended("merge_geotypes")
    /\ \A g \in {done.args.left_geotype, done.args.right_geotype} :
          attrs[g].kind = "df" /\ attrs[g].rows # <<>>

\* C22: merge_geotypes joins on the caller's keys only when left_on and
\* right_on are both given.  With none or exactly one of them given, the
\* given key is not used, not even looked up in the tables: the result is
\* the join on left.(GeoType, Id) = right.(ParentGeoType, ParentId) if the
\* right table has a ParentGeoType column, on left.Id = right.ParentId
\* otherwise.  With both given and none of them empty, the result is the join
\* on the given columns, or a KeyError when a table lacks one; a given key
\* that is an empty list counts as not given.
C22_CallerKeysNeedBothSides ==
    MergedTwoTables
    => LET left_on == done.args.left_on
           right_on == done.args.right_on
           df_l == attrs[done.args.left_geotype]
           df_r == attrs[done.args.right_geotype]
           inferred == JoinedBy(LAMBDA l, r : IsPair(l, r, df_r))
       IN  IF left_on = PyNone \/ right_on = PyNone
           THEN inferred
           ELSE IF left_on \in {JsonList(<<>>), PyStr("")}
                   \/ right_on \in {JsonList(<<>>), PyStr("")}
           THEN inferred
           ELSE LET lk == IF left_on.kind = "str" THEN <<left_on.str>> ELSE left_on.list
                    rk == IF right_on.kind = "str" THEN <<right_on.str>> ELSE right_on.list
                IN  IF (\A k \in DOMAIN lk : lk[k] \in Columns(df_l))
                       /\ (\A k \in DOMAIN rk : rk[k] \in Columns(df_r))
                    THEN JoinedBy(LAMBDA l, r :
                                     \A k \in DOMAIN lk : l[lk[k]] = r[rk[k]])
                    ELSE done.result = OtherError("KeyError")

\* C22 witness: bridges were merged with openings with left_on = ['ParentId']
\* and no right_on; the result is the join on the parent, with the two
\* openings of bridge 1, and not the join on ParentId.
C22_Witness ==
    /\ MergedTwoTables
    /\ done.args.left_geotype = "bridge"
    /\ done.args.right_geotype = "opening"
    /\ done.args.left_on = JsonList(<<"ParentId">>)
    /\ done.args.right_on = PyNone
    /\ Len(attrs["bridge"].rows) >= 2
    /\ Len(attrs["opening"].rows) >= 3
    /\ Len(done.result.rows) = 2
    /\ done.result.rows[1].Id = 1
    /\ done.result.rows[2].Id = 1
    /\ done.result.rows[2]["Id_opening"] = 2

====
